---- MODULE Spec2Model ----
(***************************************************************************)
(* RiskForge: the asynchronous risk-evaluation pipeline.                   *)
(*                                                                         *)
(*   producer  api-gateway  TransactionService.create_transaction + get_db *)
(*   queue     Celery "risk_queue" (task_acks_late, max_retries = 3)       *)
(*   worker    risk-service evaluate_transaction                           *)
(*   reader    api-gateway  TransactionService.get_transaction             *)
(*                                                                         *)
(* Numbers.  Scores are Python floats, modelled bit for bit as IEEE 754    *)
(* binary64 values with every operation rounded to nearest even; a value   *)
(* rounded by round(x, 4) is held as its count of 10^-4.                   *)
(* A nullable column is the empty sequence (None) or a one-element         *)
(* sequence <<v>>.                                                         *)
(***************************************************************************)
EXTENDS Integers, Sequences, FiniteSets, Bags, TLC

\* ------------------------------------------------------------------ bounds
MaxFaults == 1       \* worker crashes (each followed by a redelivery) in a run

\* -------------------------------------------------------------- universes
None == << >>
Some(v) == <<v>>

TxnIds == {"A", "B"}
Created == {"A"}     \* the ids create_transaction is called for; the rest stay absent
UserIds == {"u1", "u2"}
Owners == {"u1"}     \* the authenticated users create_transaction is called by
Workers == {1, 2}     \* the worker processes consuming risk_queue

\* TransactionCreate payloads the producer is fed with.  device_id and
\* location are optional strings; amount is in currency units.
Payloads ==
  { [amount |-> 100000, hour |-> 2,  device_id |-> Some("dev"), location |-> Some("loc")],
    [amount |-> 500,    hour |-> 14, device_id |-> None,        location |-> None] }

\* ------------------------------------------------------------ Python floats
\* A Python float is an IEEE 754 binary64 number.  A natural number is held
\* as its digits in base 2^13, least significant first and without leading
\* zeros (so that products of digits stay small); a float is [m, e], the
\* number m * 2^e with m of exactly MANT_DIG bits, or Zero.
BASE == 2 ^ 13
MANT_DIG == 53

Min(a, b) == IF a < b THEN a ELSE b

RECURSIVE Trim(_)
Trim(n) ==
  IF n = << >> THEN n
  ELSE IF n[Len(n)] = 0 THEN Trim(SubSeq(n, 1, Len(n) - 1)) ELSE n

RECURSIVE BigFromInt(_)
BigFromInt(k) == IF k = 0 THEN << >> ELSE <<k % BASE>> \o BigFromInt(k \div BASE)

RECURSIVE BigToInt(_)
BigToInt(n) == IF n = << >> THEN 0 ELSE n[1] + BASE * BigToInt(Tail(n))

RECURSIVE BigAddC(_, _, _)
BigAddC(a, b, c) ==
  IF a = << >> /\ b = << >> THEN (IF c = 0 THEN << >> ELSE <<c>>)
  ELSE LET x == IF a = << >> THEN 0 ELSE a[1]
           y == IF b = << >> THEN 0 ELSE b[1]
           s == x + y + c
       IN  <<s % BASE>> \o BigAddC(IF a = << >> THEN a ELSE Tail(a),
                                   IF b = << >> THEN b ELSE Tail(b), s \div BASE)

BigAdd(a, b) == BigAddC(a, b, 0)

RECURSIVE BigMulSmallC(_, _, _)
BigMulSmallC(a, d, c) ==
  IF a = << >> THEN BigFromInt(c)
  ELSE LET s == a[1] * d + c
       IN  <<s % BASE>> \o BigMulSmallC(Tail(a), d, s \div BASE)

\* a times the small number d
BigMulSmall(a, d) == Trim(BigMulSmallC(a, d, 0))

RECURSIVE BigMul(_, _)
BigMul(a, b) ==
  IF b = << >> \/ a = << >> THEN << >>
  ELSE BigAdd(BigMulSmall(a, b[1]),
              LET r == BigMul(a, Tail(b)) IN IF r = << >> THEN r ELSE <<0>> \o r)

RECURSIVE BigDivSmallR(_, _, _)
BigDivSmallR(a, d, r) ==
  IF a = << >> THEN [q |-> << >>, r |-> r]
  ELSE LET x == r * BASE + a[Len(a)]
           rest == BigDivSmallR(SubSeq(a, 1, Len(a) - 1), d, x % d)
       IN  [q |-> rest.q \o <<x \div d>>, r |-> rest.r]

\* quotient and remainder of a by the small number d
BigDivSmall(a, d) ==
  LET t == BigDivSmallR(a, d, 0) IN [q |-> Trim(t.q), r |-> t.r]

RECURSIVE IntBitLen(_)
IntBitLen(k) == IF k = 0 THEN 0 ELSE 1 + IntBitLen(k \div 2)

RECURSIVE IntLog2(_)
IntLog2(k) == IF k <= 1 THEN 0 ELSE 1 + IntLog2(k \div 2)

LIMB_BITS == IntLog2(BASE)

BitLen(n) ==
  IF n = << >> THEN 0 ELSE LIMB_BITS * (Len(n) - 1) + IntBitLen(n[Len(n)])

ShiftLeft(n, s) ==
  IF n = << >> THEN n
  ELSE [i \in 1..(s \div LIMB_BITS) |-> 0] \o BigMulSmall(n, 2 ^ (s % LIMB_BITS))

ShiftRight(n, s) ==
  IF Len(n) <= s \div LIMB_BITS THEN << >>
  ELSE BigDivSmall(SubSeq(n, (s \div LIMB_BITS) + 1, Len(n)), 2 ^ (s % LIMB_BITS)).q

RECURSIVE BigLessFrom(_, _, _)
BigLessFrom(a, b, i) ==
  IF i = 0 THEN FALSE
  ELSE IF a[i] # b[i] THEN a[i] < b[i] ELSE BigLessFrom(a, b, i - 1)

BigLess(a, b) ==
  IF Len(a) # Len(b) THEN Len(a) < Len(b) ELSE BigLessFrom(a, b, Len(a))

\* n / 2^k rounded to an integer, a tie going to the even neighbour.
RoundShift(n, k) ==
  IF k <= 0 THEN ShiftLeft(n, 0 - k)
  ELSE LET q == ShiftRight(n, k)
           mid == ShiftLeft(BigAdd(ShiftLeft(q, 1), <<1>>), k)
           twice == ShiftLeft(n, 1)
           odd == q # << >> /\ q[1] % 2 = 1
       IN  IF BigLess(mid, twice) \/ (mid = twice /\ odd) THEN BigAdd(q, <<1>>) ELSE q

Zero == [m |-> << >>, e |-> 0]

\* The float nearest to n * 2^e (round to nearest, ties to even).
Float(n, e) ==
  IF n = << >> THEN Zero
  ELSE LET k == BitLen(n) - MANT_DIG
           q == RoundShift(n, k)
       IN  IF BitLen(q) > MANT_DIG THEN [m |-> ShiftRight(q, 1), e |-> e + k + 1]
           ELSE [m |-> q, e |-> e + k]

\* a * b and a + b of two floats, each rounded once.
FMul(a, b) == Float(BigMul(a.m, b.m), a.e + b.e)

FAdd(a, b) ==
  IF a.m = << >> THEN b
  ELSE IF b.m = << >> THEN a
  ELSE LET e == Min(a.e, b.e)
       IN  Float(BigAdd(ShiftLeft(a.m, a.e - e), ShiftLeft(b.m, b.e - e)), e)

\* a < b on floats (exact).
FLess(a, b) ==
  IF b.m = << >> THEN FALSE
  ELSE IF a.m = << >> THEN TRUE
  ELSE LET e == Min(a.e, b.e)
       IN  BigLess(ShiftLeft(a.m, a.e - e), ShiftLeft(b.m, b.e - e))

FMin(a, b) == IF FLess(b, a) THEN b ELSE a

\* The float nearest to num / den, for small naturals: the value of the
\* division num / den of two such floats and of the literal with that value
\* (0.7 is FDiv(7, 10)).
FDiv(num, den) ==
  LET t == BigDivSmall(ShiftLeft(BigFromInt(num), 70), den)
      n == BigAdd(ShiftLeft(t.q, 1), IF t.r = 0 THEN << >> ELSE <<1>>)
  IN  Float(n, 0 - 71)

\* round(x, 4) of a float in [0, 1], as the count of 10^-4 of the result.
Round4(x) ==
  IF x.m = << >> THEN 0 ELSE BigToInt(RoundShift(BigMulSmall(x.m, 10000), 0 - x.e))

\* ------------------------------------------------------- program constants
MAX_RAW_SCORE == 80
ML_WEIGHT == FDiv(7, 10)
RULE_WEIGHT == FDiv(3, 10)
APPROVED_THRESHOLD == FDiv(4, 10)
BLOCKED_THRESHOLD == FDiv(75, 100)
MAX_RETRIES == 3
ONE == FDiv(1, 1)

\* Probabilities a classifier artifact returns (0.9).
MlValues == {FDiv(9, 10)}

\* A loaded classifier artifact is an opaque function of the feature
\* vector; amount, hour and the two flags determine the whole vector.
FeatureVectors ==
  { [amount |-> p.amount, hour |-> p.hour,
     is_new_device |-> (p.device_id # None),
     is_unusual_location |-> (p.location # None)] : p \in Payloads }

Classifiers == [FeatureVectors -> MlValues]

\* predictor._model: not loaded, or a loaded artifact.
Models == {None} \cup {Some(c) : c \in Classifiers}

\* ------------------------------------------------------------ pure scoring
\* Mutant of compute_rule_score: an amount of exactly 50000 counts as
\* high and hour 22 as day.
compute_rule_score_off_by_one(amount, hour, is_new_device, is_unusual_location) ==
  LET raw_score == (IF amount >= 50000 THEN 30 ELSE 0)
                 + (IF hour > 22 \/ hour < 6 THEN 10 ELSE 0)
                 + (IF is_new_device THEN 20 ELSE 0)
                 + (IF is_unusual_location THEN 20 ELSE 0)
  IN  FMin(FDiv(raw_score, MAX_RAW_SCORE), ONE)

\* rule_engine.compute_rule_score: the points of the rules that fire over
\* MAX_RAW_SCORE, capped at 1.0.
compute_rule_score(amount, hour, is_new_device, is_unusual_location) ==
  LET raw_score == (IF amount > 50000 THEN 30 ELSE 0)
                 + (IF hour >= 22 \/ hour < 6 THEN 10 ELSE 0)
                 + (IF is_new_device THEN 20 ELSE 0)
                 + (IF is_unusual_location THEN 20 ELSE 0)
  IN  FMin(FDiv(raw_score, MAX_RAW_SCORE), ONE)

\* Mutant of predict_fraud_probability: without a model the probability
\* defaults to 0.0.
predict_fraud_probability_zero_default(mdl, features) ==
  IF mdl = None THEN Zero ELSE mdl[1][features]

\* predictor.predict_fraud_probability: 0.5 when no artifact is loaded,
\* otherwise what the artifact returns for the feature vector.
predict_fraud_probability(mdl, features) ==
  IF mdl = None THEN FDiv(1, 2) ELSE mdl[1][features]

\* Mutant of compute_hybrid_score: the two weights exchanged.
compute_hybrid_score_swapped(ml_score, rule_score) ==
  FAdd(FMul(RULE_WEIGHT, ml_score), FMul(ML_WEIGHT, rule_score))

\* risk_scorer.compute_hybrid_score: ML_WEIGHT * ml_score + RULE_WEIGHT *
\* rule_score in float arithmetic: two rounded products, one rounded sum.
compute_hybrid_score(ml_score, rule_score) ==
  FAdd(FMul(ML_WEIGHT, ml_score), FMul(RULE_WEIGHT, rule_score))

\* Mutant of determine_risk_decision: the thresholds belong to the lower
\* band.
determine_risk_decision_inclusive(final_score) ==
  IF ~FLess(APPROVED_THRESHOLD, final_score) THEN <<"APPROVED", "LOW">>
  ELSE IF ~FLess(BLOCKED_THRESHOLD, final_score) THEN <<"FLAGGED", "MEDIUM">>
  ELSE <<"BLOCKED", "HIGH">>

\* risk_scorer.determine_risk_decision.
determine_risk_decision(final_score) ==
  IF FLess(final_score, APPROVED_THRESHOLD) THEN <<"APPROVED", "LOW">>
  ELSE IF FLess(final_score, BLOCKED_THRESHOLD) THEN <<"FLAGGED", "MEDIUM">>
  ELSE <<"BLOCKED", "HIGH">>

\* risk_scorer.evaluate_transaction_risk: the result dict, scores rounded
\* to 4 decimals (held as counts of 10^-4), decision taken on the unrounded
\* score.
evaluate_transaction_risk(mdl, amount, hour, is_new_device, is_unusual_location) ==
  LET features == [amount |-> amount, hour |-> hour,
                   is_new_device |-> is_new_device,
                   is_unusual_location |-> is_unusual_location]
      ml_score == predict_fraud_probability(mdl, features)
      rule_score == compute_rule_score(amount, hour, is_new_device, is_unusual_location)
      final_score == compute_hybrid_score(ml_score, rule_score)
      decision == determine_risk_decision(final_score)
  IN  [ml_score |-> Round4(ml_score),
       rule_score |-> Round4(rule_score),
       final_score |-> Round4(final_score),
       status |-> decision[1],
       risk_level |-> decision[2]]

\* ------------------------------------------------------------------- state
VARIABLES
  db,          \* Primary Store, committed transactions rows: id -> None | <<row>>
  alerts,      \* Primary Store, committed HIGH_RISK_TRANSACTION alert rows per transaction id
  cache,       \* Result Cache: key txn_result:<id> -> None | <<snapshot>>
  queue,       \* risk_queue: bag of deliverable messages [id, retries, countdown]
  wk,          \* per worker process: position in evaluate_transaction and its locals
  pr,          \* per transaction id: the creating request (create_transaction + get_db)
  rd,          \* the reading request (get_transaction)
  model,       \* predictor._model of the scoring process: None | <<classifier>>
               \* (None in the worker as wired, see InitWorker; a classifier in a
               \* process that has called load_model)
  redis_pool,  \* api-gateway core.redis.redis_pool is set (TRUE) or None (FALSE)
  faults,      \* worker crashes so far
  call         \* a call of one scoring function on its own: arguments and result

vars == <<db, alerts, cache, queue, wk, pr, rd, model, redis_pool, faults, call>>

\* Mutant of NewTransaction: the status column default is not PENDING.
NewTransaction_approved(id, user_id, payload) ==
  [id |-> id, user_id |-> user_id,
   amount |-> payload.amount, hour |-> payload.hour,
   device_id |-> payload.device_id, location |-> payload.location,
   status |-> "APPROVED",
   rule_score |-> None, ml_score |-> None, final_score |-> None,
   risk_level |-> None]

\* models.Transaction as inserted by TransactionRepository.create: the
\* column defaults give status PENDING and NULL scoring columns.
NewTransaction(id, user_id, payload) ==
  [id |-> id, user_id |-> user_id,
   amount |-> payload.amount, hour |-> payload.hour,
   device_id |-> payload.device_id, location |-> payload.location,
   status |-> "PENDING",
   rule_score |-> None, ml_score |-> None, final_score |-> None,
   risk_level |-> None]

\* schemas.TransactionResponse.model_validate(txn): the snapshot of an ORM
\* object (from_attributes).
TransactionResponse(txn) ==
  [id |-> txn.id, user_id |-> txn.user_id, amount |-> txn.amount,
   status |-> txn.status,
   rule_score |-> txn.rule_score, ml_score |-> txn.ml_score,
   final_score |-> txn.final_score, risk_level |-> txn.risk_level]

\* The message send_task / self.retry publishes.
Message(id, retries, countdown) ==
  [id |-> id, retries |-> retries, countdown |-> countdown]

IdleWorker ==
  [pc |-> "idle", msg |-> None, result |-> None, event |-> "none",
   outcome |-> "none"]

IdleProducer ==
  [pc |-> "idle", txn |-> None, enqueue |-> "none", response |-> None]

IdleReader ==
  [pc |-> "idle", id |-> "A", user_id |-> "u1", evaluated |-> FALSE,
   source |-> "none", outcome |-> "none", response |-> None]

\* No scoring function is being called on its own.
NoCall ==
  [fn |-> "none", pc |-> "none",
   amount |-> 0, hour |-> 0, is_new_device |-> FALSE, is_unusual_location |-> FALSE,
   ml |-> 0, rule |-> 0, score |-> 0,
   value |-> Zero, status |-> "", risk_level |-> "", result |-> None]

\* The stores, the queue and the processes right after start-up.
InitPipeline ==
  /\ db = [i \in TxnIds |-> None]
  /\ alerts = [i \in TxnIds |-> 0]
  /\ cache = [i \in TxnIds |-> None]
  /\ queue = EmptyBag
  /\ wk = [w \in Workers |-> IdleWorker]
  /\ pr = [i \in TxnIds |-> IdleProducer]
  /\ rd = IdleReader
  /\ model \in Models
  /\ redis_pool \in BOOLEAN
  /\ faults = 0

Init ==
  /\ InitPipeline
  /\ call = NoCall

\* ---------------------------------------------------------------- producer
\* create_transaction, lines 44-54: repo.create adds, flushes and refreshes
\* the row inside the request's still open database transaction.
CreateFlush(i, user_id, payload) ==
  /\ pr[i].pc = "idle"
  /\ pr' = [pr EXCEPT ![i] = [@ EXCEPT !.pc = "flushed",
                                       !.txn = Some(NewTransaction(i, user_id, payload))]]
  /\ UNCHANGED <<db, alerts, cache, queue, wk, rd, model, redis_pool, faults, call>>

\* create_transaction, lines 46-54 under get_db, lines 38-41: the insert
\* raises (store unreachable); the request ends in an error, rolled back.
CreateRaise(i) ==
  /\ pr[i].pc = "idle"
  /\ pr' = [pr EXCEPT ![i] = [@ EXCEPT !.pc = "error"]]
  /\ UNCHANGED <<db, alerts, cache, queue, wk, rd, model, redis_pool, faults, call>>

\* Mutant of Enqueue: the exception of send_task is not caught and ends
\* the request in an error.
Enqueue_propagates(i, sent) ==
  /\ pr[i].pc = "flushed"
  /\ IF redis_pool
       THEN IF sent
              THEN /\ queue' = queue (+) SetToBag({Message(i, 0, 0)})
                   /\ pr' = [pr EXCEPT ![i] = [@ EXCEPT !.pc = "dispatched", !.enqueue = "sent"]]
              ELSE /\ queue' = queue
                   /\ pr' = [pr EXCEPT ![i] = [@ EXCEPT !.pc = "error", !.enqueue = "failed",
                                                        !.txn = None]]
       ELSE /\ sent
            /\ queue' = queue
            /\ pr' = [pr EXCEPT ![i] = [@ EXCEPT !.pc = "dispatched", !.enqueue = "skipped"]]
  /\ UNCHANGED <<db, alerts, cache, wk, rd, model, redis_pool, faults, call>>

\* Mutant of Enqueue: send_task raises after the broker took the message.
Enqueue_published_then_raised(i, sent) ==
  /\ pr[i].pc = "flushed"
  /\ IF redis_pool
       THEN /\ queue' = queue (+) SetToBag({Message(i, 0, 0)})
            /\ pr' = [pr EXCEPT ![i] = [@ EXCEPT !.pc = "dispatched",
                                  !.enqueue = IF sent THEN "sent" ELSE "failed"]]
       ELSE /\ sent
            /\ queue' = queue
            /\ pr' = [pr EXCEPT ![i] = [@ EXCEPT !.pc = "dispatched", !.enqueue = "skipped"]]
  /\ UNCHANGED <<db, alerts, cache, wk, rd, model, redis_pool, faults, call>>

\* create_transaction, lines 56-68: best-effort send_task.  sent = FALSE is
\* send_task raising; the exception is logged and swallowed.
Enqueue(i, sent) ==
  /\ pr[i].pc = "flushed"
  /\ IF redis_pool
       THEN IF sent
              THEN /\ queue' = queue (+) SetToBag({Message(i, 0, 0)})
                   /\ pr' = [pr EXCEPT ![i] = [@ EXCEPT !.pc = "dispatched", !.enqueue = "sent"]]
              ELSE /\ queue' = queue
                   /\ pr' = [pr EXCEPT ![i] = [@ EXCEPT !.pc = "dispatched", !.enqueue = "failed"]]
       ELSE /\ sent
            /\ queue' = queue
            /\ pr' = [pr EXCEPT ![i] = [@ EXCEPT !.pc = "dispatched", !.enqueue = "skipped"]]
  /\ UNCHANGED <<db, alerts, cache, wk, rd, model, redis_pool, faults, call>>

\* create_transaction, line 76: the response is built from the ORM object
\* as refreshed by repo.create.
CreateReturn(i) ==
  /\ pr[i].pc = "dispatched"
  /\ pr' = [pr EXCEPT ![i] = [@ EXCEPT !.pc = "returned",
                                       !.response = Some(TransactionResponse(pr[i].txn[1]))]]
  /\ UNCHANGED <<db, alerts, cache, queue, wk, rd, model, redis_pool, faults, call>>

\* database.get_db, lines 35-43: after the endpoint returned, commit; a
\* failing commit rolls the insert back.
CreateCommit(i, ok) ==
  /\ pr[i].pc = "returned"
  /\ IF ok
       THEN /\ db' = [db EXCEPT ![i] = pr[i].txn]
            /\ pr' = [pr EXCEPT ![i] = [@ EXCEPT !.pc = "committed"]]
       ELSE /\ db' = db
            /\ pr' = [pr EXCEPT ![i] = [@ EXCEPT !.pc = "rolledback", !.txn = None]]
  /\ UNCHANGED <<alerts, cache, queue, wk, rd, model, redis_pool, faults, call>>

\* ------------------------------------------------------------------ worker
\* Mutant of Countdown: the delay grows linearly.
Countdown_linear(retries) == 2 * retries

\* evaluate_transaction, line 132: countdown = 2 ** self.request.retries.
Countdown(retries) == 2 ^ retries

\* evaluate_transaction_risk over the inputs the model feeds it with: the
\* function is pure, so each input is scored once and looked up afterwards.
RiskResults ==
  [mdl \in Models, f \in FeatureVectors |->
     evaluate_transaction_risk(mdl, f.amount, f.hour,
                               f.is_new_device, f.is_unusual_location)]

\* Mutant of ScoreLoaded: a row that was already evaluated is blocked when
\* it is scored again.
ScoreLoaded_escalating(mdl, txn) ==
  LET result == RiskResults[mdl, [amount |-> txn.amount, hour |-> txn.hour,
                                  is_new_device |-> (txn.device_id # None),
                                  is_unusual_location |-> (txn.location # None)]]
  IN  IF txn.status = "PENDING" THEN result
      ELSE [result EXCEPT !.status = "BLOCKED", !.risk_level = "HIGH"]

\* evaluate_transaction, lines 65-70: the scoring inputs taken from the
\* loaded row.
ScoreLoaded(mdl, txn) ==
  RiskResults[mdl, [amount |-> txn.amount, hour |-> txn.hour,
                    is_new_device |-> (txn.device_id # None),
                    is_unusual_location |-> (txn.location # None)]]

\* Mutant of ApplyResult: the risk_level assignment is missing.
ApplyResult_no_risk_level(row, result) ==
  [row EXCEPT !.ml_score = Some(result.ml_score),
              !.rule_score = Some(result.rule_score),
              !.final_score = Some(result.final_score),
              !.status = result.status]

\* evaluate_transaction, lines 72-77: the columns the unit of work updates.
ApplyResult(row, result) ==
  [row EXCEPT !.ml_score = Some(result.ml_score),
              !.rule_score = Some(result.rule_score),
              !.final_score = Some(result.final_score),
              !.status = result.status,
              !.risk_level = Some(result.risk_level)]

\* Mutant of AlertsAdded: an alert row is added whatever the risk level.
AlertsAdded_always(result) == IF result.risk_level = "HIGH" THEN 1 ELSE 1

\* evaluate_transaction, lines 81-91: the alert rows the unit of work adds.
AlertsAdded(result) == IF result.risk_level = "HIGH" THEN 1 ELSE 0

\* Mutant of cache_data: final_score is filled from the model score.
cache_data_wrong_field(txn, result) ==
  [id |-> txn.id, user_id |-> txn.user_id, amount |-> txn.amount,
   status |-> result.status,
   rule_score |-> Some(result.rule_score), ml_score |-> Some(result.ml_score),
   final_score |-> Some(result.ml_score),
   risk_level |-> Some(result.risk_level)]

\* evaluate_transaction, lines 102-118: the snapshot written to the cache;
\* the scoring fields come from the result dict, the rest from the row
\* (re-read after the commit expired the ORM object).
cache_data(txn, result) ==
  [id |-> txn.id, user_id |-> txn.user_id, amount |-> txn.amount,
   status |-> result.status,
   rule_score |-> Some(result.rule_score), ml_score |-> Some(result.ml_score),
   final_score |-> Some(result.final_score),
   risk_level |-> Some(result.risk_level)]

\* The queue hands a deliverable message to an idle worker; with
\* task_acks_late the message stays unacknowledged while the task runs.
\* The worker processes are identical, so of the idle ones the first takes
\* the message.
Deliver(w, m) ==
  /\ wk[w].pc = "idle"
  /\ \A v \in Workers : v < w => wk[v].pc # "idle"
  /\ BagIn(m, queue)
  /\ queue' = queue (-) SetToBag({m})
  /\ wk' = [wk EXCEPT ![w] = [IdleWorker EXCEPT !.pc = "load", !.msg = Some(m)]]
  /\ UNCHANGED <<db, alerts, cache, pr, rd, model, redis_pool, faults, call>>

\* Mutant of Load: the not-found branch asks for a retry instead of
\* returning.
Load_retry_not_found(w) ==
  /\ wk[w].pc = "load"
  /\ LET m == wk[w].msg[1]
         row == db[m.id]
     IN  IF row = None
           THEN /\ wk' = [wk EXCEPT ![w] = [@ EXCEPT !.pc = "ack",
                                                     !.event = "transaction_not_found",
                                                     !.outcome = "RETRY"]]
                /\ queue' = queue (+) SetToBag({Message(m.id, Min(m.retries + 1, MAX_RETRIES),
                                                        Countdown(m.retries))})
           ELSE /\ wk' = [wk EXCEPT ![w] = [@ EXCEPT !.pc = "commit",
                                                     !.result = Some(ScoreLoaded(model, row[1]))]]
                /\ queue' = queue
  /\ UNCHANGED <<db, alerts, cache, pr, rd, model, redis_pool, faults, call>>

\* Mutant of Load: the snapshot is written to the cache as soon as the row
\* is scored, before the commit.
Load_cache_early(w) ==
  /\ wk[w].pc = "load"
  /\ LET i == wk[w].msg[1].id
         row == db[i]
     IN  IF row = None
           THEN /\ wk' = [wk EXCEPT ![w] = [@ EXCEPT !.pc = "ack", !.event = "transaction_not_found",
                                                    !.outcome = "SUCCESS"]]
                /\ cache' = cache
           ELSE /\ wk' = [wk EXCEPT ![w] = [@ EXCEPT !.pc = "commit",
                                                    !.result = Some(ScoreLoaded(model, row[1]))]]
                /\ cache' = [cache EXCEPT ![i] =
                               Some(cache_data(row[1], ScoreLoaded(model, row[1])))]
  /\ UNCHANGED <<db, alerts, queue, pr, rd, model, redis_pool, faults, call>>

\* evaluate_transaction, lines 56-96: load the row (a missing row ends the
\* task with a returned error dict), score it, assign the columns, flush
\* and add the alert, all inside the session's open database transaction.
Load(w) ==
  /\ wk[w].pc = "load"
  /\ LET row == db[wk[w].msg[1].id]
     IN  IF row = None
           THEN wk' = [wk EXCEPT ![w] = [@ EXCEPT !.pc = "ack", !.event = "transaction_not_found",
                                                 !.outcome = "SUCCESS"]]
           ELSE wk' = [wk EXCEPT ![w] = [@ EXCEPT !.pc = "commit",
                                                 !.result = Some(ScoreLoaded(model, row[1]))]]
  /\ UNCHANGED <<db, alerts, cache, queue, pr, rd, model, redis_pool, faults, call>>

\* Mutant of Commit: the row update is committed on its own, the alert
\* insert is left to a later commit that this step does not make.
Commit_update_only(w) ==
  /\ wk[w].pc = "commit"
  /\ LET i == wk[w].msg[1].id
     IN  db' = [db EXCEPT ![i] = Some(ApplyResult(db[i][1], wk[w].result[1]))]
  /\ wk' = [wk EXCEPT ![w] = [@ EXCEPT !.pc = "cache"]]
  /\ UNCHANGED <<alerts, cache, queue, pr, rd, model, redis_pool, faults, call>>

\* Mutant of Commit: the update is not restricted to the row of the job's
\* transaction id; every stored row takes the scores.
Commit_every_row(w) ==
  /\ wk[w].pc = "commit"
  /\ LET i == wk[w].msg[1].id
         result == wk[w].result[1]
     IN  /\ db' = [j \in TxnIds |-> IF db[j] = None THEN None
                                    ELSE Some(ApplyResult(db[j][1], result))]
         /\ alerts' = [alerts EXCEPT ![i] = @ + AlertsAdded(result)]
  /\ wk' = [wk EXCEPT ![w] = [@ EXCEPT !.pc = "cache"]]
  /\ UNCHANGED <<cache, queue, pr, rd, model, redis_pool, faults, call>>

\* evaluate_transaction, line 98: session.commit() makes the row update and
\* the alert insert visible together.
Commit(w) ==
  /\ wk[w].pc = "commit"
  /\ LET i == wk[w].msg[1].id
         result == wk[w].result[1]
     IN  /\ db' = [db EXCEPT ![i] = Some(ApplyResult(db[i][1], result))]
         /\ alerts' = [alerts EXCEPT ![i] = @ + AlertsAdded(result)]
  /\ wk' = [wk EXCEPT ![w] = [@ EXCEPT !.pc = "cache"]]
  /\ UNCHANGED <<cache, queue, pr, rd, model, redis_pool, faults, call>>

\* Mutant of Cache: the snapshot is taken from the row as it was loaded,
\* before the scores were assigned.
Cache_row_as_loaded(w) ==
  /\ wk[w].pc = "cache"
  /\ LET i == wk[w].msg[1].id
     IN  cache' = [cache EXCEPT ![i] = Some(TransactionResponse(pr[i].txn[1]))]
  /\ wk' = [wk EXCEPT ![w] = [@ EXCEPT !.pc = "ack", !.event = "evaluate_transaction_complete",
                                       !.outcome = "SUCCESS"]]
  /\ UNCHANGED <<db, alerts, queue, pr, rd, model, redis_pool, faults, call>>

\* evaluate_transaction, lines 100-128: SETEX of the snapshot, then return.
Cache(w) ==
  /\ wk[w].pc = "cache"
  /\ LET i == wk[w].msg[1].id
     IN  cache' = [cache EXCEPT ![i] = Some(cache_data(db[i][1], wk[w].result[1]))]
  /\ wk' = [wk EXCEPT ![w] = [@ EXCEPT !.pc = "ack", !.event = "evaluate_transaction_complete",
                                       !.outcome = "SUCCESS"]]
  /\ UNCHANGED <<db, alerts, queue, pr, rd, model, redis_pool, faults, call>>

\* Mutant of Raise: the except clause also puts the transaction back to
\* PENDING before asking for the retry.
Raise_reset_pending(w) ==
  /\ wk[w].pc \in {"load", "commit", "cache"}
  /\ LET m == wk[w].msg[1]
     IN  /\ db' = IF db[m.id] = None THEN db
                  ELSE [db EXCEPT ![m.id] = Some([db[m.id][1] EXCEPT !.status = "PENDING"])]
         /\ IF m.retries + 1 > MAX_RETRIES
              THEN /\ queue' = queue
                   /\ wk' = [wk EXCEPT ![w] = [@ EXCEPT !.pc = "ack", !.outcome = "FAILURE",
                                                        !.event = "evaluate_transaction_error",
                                                        !.result = None]]
              ELSE /\ queue' = queue (+) SetToBag({Message(m.id, m.retries + 1,
                                                           Countdown(m.retries))})
                   /\ wk' = [wk EXCEPT ![w] = [@ EXCEPT !.pc = "ack", !.outcome = "RETRY",
                                                        !.event = "evaluate_transaction_error",
                                                        !.result = None]]
  /\ UNCHANGED <<alerts, cache, pr, rd, model, redis_pool, faults, call>>

\* Mutant of Raise: a job that fails for good marks its transaction FLAGGED
\* for manual review.
Raise_flag_on_failure(w) ==
  /\ wk[w].pc \in {"load", "commit", "cache"}
  /\ LET m == wk[w].msg[1]
     IN  IF m.retries + 1 > MAX_RETRIES
           THEN /\ queue' = queue
                /\ db' = IF db[m.id] = None THEN db
                         ELSE [db EXCEPT ![m.id] = Some([db[m.id][1] EXCEPT !.status = "FLAGGED"])]
                /\ wk' = [wk EXCEPT ![w] = [@ EXCEPT !.pc = "ack", !.outcome = "FAILURE",
                                                     !.event = "evaluate_transaction_error",
                                                     !.result = None]]
           ELSE /\ queue' = queue (+) SetToBag({Message(m.id, m.retries + 1,
                                                        Countdown(m.retries))})
                /\ db' = db
                /\ wk' = [wk EXCEPT ![w] = [@ EXCEPT !.pc = "ack", !.outcome = "RETRY",
                                                     !.event = "evaluate_transaction_error",
                                                     !.result = None]]
  /\ UNCHANGED <<alerts, cache, pr, rd, model, redis_pool, faults, call>>

\* Mutant of Raise: the retry is republished without counting it, so
\* max_retries is never exceeded.
Raise_no_count(w) ==
  /\ wk[w].pc \in {"load", "commit", "cache"}
  /\ LET m == wk[w].msg[1]
     IN  /\ queue' = queue (+) SetToBag({Message(m.id, m.retries, Countdown(m.retries))})
         /\ wk' = [wk EXCEPT ![w] = [@ EXCEPT !.pc = "ack", !.outcome = "RETRY",
                                              !.event = "evaluate_transaction_error",
                                              !.result = None]]
  /\ UNCHANGED <<db, alerts, cache, pr, rd, model, redis_pool, faults, call>>

\* evaluate_transaction, lines 130-132: any exception raised by the store
\* or the cache at the current step; the session closes (rolling back what
\* is not committed) and self.retry republishes the task unless
\* max_retries is exceeded.
Raise(w) ==
  /\ wk[w].pc \in {"load", "commit", "cache"}
  /\ LET m == wk[w].msg[1]
     IN  IF m.retries + 1 > MAX_RETRIES
           THEN /\ queue' = queue
                /\ wk' = [wk EXCEPT ![w] = [@ EXCEPT !.pc = "ack", !.outcome = "FAILURE",
                                                     !.event = "evaluate_transaction_error",
                                                     !.result = None]]
           ELSE /\ queue' = queue (+) SetToBag({Message(m.id, m.retries + 1,
                                                        Countdown(m.retries))})
                /\ wk' = [wk EXCEPT ![w] = [@ EXCEPT !.pc = "ack", !.outcome = "RETRY",
                                                     !.event = "evaluate_transaction_error",
                                                     !.result = None]]
  /\ UNCHANGED <<db, alerts, cache, pr, rd, model, redis_pool, faults, call>>

\* task_acks_late: the message is acknowledged after the task has ended
\* (returned, asked for a retry, or failed).
Ack(w) ==
  /\ wk[w].pc = "ack"
  /\ wk' = [wk EXCEPT ![w] = IdleWorker]
  /\ UNCHANGED <<db, alerts, cache, queue, pr, rd, model, redis_pool, faults, call>>

\* Mutant of Crash: the message was acknowledged on receipt, so the crash
\* loses it.
Crash_ack_early(w) ==
  /\ wk[w].pc # "idle"
  /\ faults < MaxFaults
  /\ faults' = faults + 1
  /\ queue' = queue
  /\ wk' = [wk EXCEPT ![w] = IdleWorker]
  /\ UNCHANGED <<db, alerts, cache, pr, rd, model, redis_pool, call>>

\* The worker process dies before the acknowledgment: uncommitted work is
\* lost and, its visibility window over, the unacknowledged message is
\* delivered again.
Crash(w) ==
  /\ wk[w].pc # "idle"
  /\ faults < MaxFaults
  /\ faults' = faults + 1
  /\ queue' = queue (+) SetToBag({wk[w].msg[1]})
  /\ wk' = [wk EXCEPT ![w] = IdleWorker]
  /\ UNCHANGED <<db, alerts, cache, pr, rd, model, redis_pool, call>>

\* ------------------------------------------------------------------ reader
\* History kept with a read: whether the evaluation of the transaction had
\* already been committed when get_transaction was called.
Evaluated(i) == db[i] # None /\ db[i][1].status # "PENDING"

\* get_transaction(txn_id, user_id), lines 89-94: with a client, GET the
\* key; a hit returns the parsed snapshot.
CacheGet(i, user_id) ==
  /\ rd.pc \in {"idle", "done"}
  /\ IF redis_pool /\ cache[i] # None
       THEN rd' = [IdleReader EXCEPT !.pc = "done", !.id = i, !.user_id = user_id,
                                     !.evaluated = Evaluated(i),
                                     !.outcome = "ok", !.source = "cache",
                                     !.response = cache[i]]
       ELSE rd' = [IdleReader EXCEPT !.pc = "db", !.id = i, !.user_id = user_id,
                                     !.evaluated = Evaluated(i)]
  /\ UNCHANGED <<db, alerts, cache, queue, wk, pr, model, redis_pool, faults, call>>

\* Mutant of DbRead: the cache is populated whether or not final_score is
\* set.
DbRead_cache_always ==
  /\ rd.pc = "db"
  /\ LET row == db[rd.id]
     IN  IF row = None
           THEN rd' = [rd EXCEPT !.pc = "done", !.outcome = "404"]
           ELSE IF row[1].user_id # rd.user_id
             THEN rd' = [rd EXCEPT !.pc = "done", !.outcome = "403"]
             ELSE IF redis_pool
               THEN rd' = [rd EXCEPT !.pc = "setex", !.source = "db",
                                     !.response = Some(TransactionResponse(row[1]))]
               ELSE rd' = [rd EXCEPT !.pc = "done", !.outcome = "ok", !.source = "db",
                                     !.response = Some(TransactionResponse(row[1]))]
  /\ UNCHANGED <<db, alerts, cache, queue, wk, pr, model, redis_pool, faults, call>>

\* get_transaction, lines 97-112: the store fallback with the 404 and 403
\* checks; a scored row goes on to the cache write.
DbRead ==
  /\ rd.pc = "db"
  /\ LET row == db[rd.id]
     IN  IF row = None
           THEN rd' = [rd EXCEPT !.pc = "done", !.outcome = "404"]
           ELSE IF row[1].user_id # rd.user_id
             THEN rd' = [rd EXCEPT !.pc = "done", !.outcome = "403"]
             ELSE IF row[1].final_score # None /\ redis_pool
               THEN rd' = [rd EXCEPT !.pc = "setex", !.source = "db",
                                     !.response = Some(TransactionResponse(row[1]))]
               ELSE rd' = [rd EXCEPT !.pc = "done", !.outcome = "ok", !.source = "db",
                                     !.response = Some(TransactionResponse(row[1]))]
  /\ UNCHANGED <<db, alerts, cache, queue, wk, pr, model, redis_pool, faults, call>>

\* get_transaction, lines 113-119: SETEX of the dumped response, return.
CacheSet ==
  /\ rd.pc = "setex"
  /\ cache' = [cache EXCEPT ![rd.id] = rd.response]
  /\ rd' = [rd EXCEPT !.pc = "done", !.outcome = "ok"]
  /\ UNCHANGED <<db, alerts, queue, wk, pr, model, redis_pool, faults, call>>

\* get_transaction, line 91: the cache client raises on GET; nothing
\* catches it and the request ends in an error.
CacheGetRaise(i, user_id) ==
  /\ rd.pc \in {"idle", "done"}
  /\ redis_pool
  /\ rd' = [IdleReader EXCEPT !.pc = "done", !.id = i, !.user_id = user_id,
                              !.evaluated = Evaluated(i), !.outcome = "error"]
  /\ UNCHANGED <<db, alerts, cache, queue, wk, pr, model, redis_pool, faults, call>>

\* get_transaction, line 113: the cache client raises on SETEX; nothing
\* catches it and the request ends in an error.
CacheSetRaise ==
  /\ rd.pc = "setex"
  /\ rd' = [rd EXCEPT !.pc = "done", !.outcome = "error", !.source = "none",
                      !.response = None]
  /\ UNCHANGED <<db, alerts, cache, queue, wk, pr, model, redis_pool, faults, call>>

\* The 600 second TTL of a cache key runs out (or the key is deleted).
CacheExpire(i) ==
  /\ cache[i] # None
  /\ cache' = [cache EXCEPT ![i] = None]
  /\ UNCHANGED <<db, alerts, queue, wk, pr, rd, model, redis_pool, faults, call>>

\* ------------------------------------------------- scoring functions alone
\* The arguments the scoring functions are called with on their own.
\* Amounts are in currency units; a score argument is given in thousandths
\* (ml, rule) or ten-thousandths (score) and passed as the float of that
\* decimal, as a Python literal would be.
Amounts == {500, 49999, 50000, 50001, 100000}
Hours == 0 .. 23
ScoreGrid == {0, 100, 125, 250, 375, 400, 500, 625, 750, 875, 900, 1000}
FinalGrid == {0, 2000, 3900, 3999, 4000, 4001, 6000, 7499, 7500, 7501, 9500, 10000}

ScoreCalls ==
     { [NoCall EXCEPT !.fn = "compute_rule_score", !.pc = "called",
                      !.amount = a, !.hour = h,
                      !.is_new_device = d, !.is_unusual_location = l] :
         a \in Amounts, h \in Hours, d \in BOOLEAN, l \in BOOLEAN }
  \cup
     { [NoCall EXCEPT !.fn = "predict_fraud_probability", !.pc = "called",
                      !.amount = f.amount, !.hour = f.hour,
                      !.is_new_device = f.is_new_device,
                      !.is_unusual_location = f.is_unusual_location] :
         f \in FeatureVectors }
  \cup
     { [NoCall EXCEPT !.fn = "compute_hybrid_score", !.pc = "called",
                      !.ml = m, !.rule = r] : m \in ScoreGrid, r \in ScoreGrid }
  \cup
     { [NoCall EXCEPT !.fn = "determine_risk_decision", !.pc = "called",
                      !.score = k] : k \in FinalGrid }
  \cup
     { [NoCall EXCEPT !.fn = "evaluate_transaction_risk", !.pc = "called",
                      !.amount = a, !.hour = p.hour,
                      !.is_new_device = d, !.is_unusual_location = l,
                      !.ml = m] :
         a \in Amounts, p \in Payloads, d \in BOOLEAN, l \in BOOLEAN, m \in ScoreGrid }

InitScore ==
  /\ InitPipeline
  /\ call \in ScoreCalls

\* compute_rule_score(amount, hour, is_new_device, is_unusual_location)
\* returns.
Return_compute_rule_score ==
  /\ call.fn = "compute_rule_score" /\ call.pc = "called"
  /\ call' = [call EXCEPT !.pc = "returned",
                          !.value = compute_rule_score(call.amount, call.hour,
                                                       call.is_new_device,
                                                       call.is_unusual_location)]
  /\ UNCHANGED <<db, alerts, cache, queue, wk, pr, rd, model, redis_pool, faults>>

\* predict_fraud_probability(features) returns, under the process's _model.
Return_predict_fraud_probability ==
  /\ call.fn = "predict_fraud_probability" /\ call.pc = "called"
  /\ call' = [call EXCEPT !.pc = "returned",
                          !.value = predict_fraud_probability(model,
                                      [amount |-> call.amount, hour |-> call.hour,
                                       is_new_device |-> call.is_new_device,
                                       is_unusual_location |-> call.is_unusual_location])]
  /\ UNCHANGED <<db, alerts, cache, queue, wk, pr, rd, model, redis_pool, faults>>

\* compute_hybrid_score(ml_score, rule_score) returns.
Return_compute_hybrid_score ==
  /\ call.fn = "compute_hybrid_score" /\ call.pc = "called"
  /\ call' = [call EXCEPT !.pc = "returned",
                          !.value = compute_hybrid_score(FDiv(call.ml, 1000),
                                                         FDiv(call.rule, 1000))]
  /\ UNCHANGED <<db, alerts, cache, queue, wk, pr, rd, model, redis_pool, faults>>

\* determine_risk_decision(final_score) returns.
Return_determine_risk_decision ==
  /\ call.fn = "determine_risk_decision" /\ call.pc = "called"
  /\ LET decision == determine_risk_decision(FDiv(call.score, 10000))
     IN  call' = [call EXCEPT !.pc = "returned",
                              !.status = decision[1], !.risk_level = decision[2]]
  /\ UNCHANGED <<db, alerts, cache, queue, wk, pr, rd, model, redis_pool, faults>>

\* evaluate_transaction_risk(amount, hour, is_new_device,
\* is_unusual_location) returns, in a process whose classifier gives the
\* feature vector the probability call.ml thousandths.
Return_evaluate_transaction_risk ==
  /\ call.fn = "evaluate_transaction_risk" /\ call.pc = "called"
  /\ LET features == [amount |-> call.amount, hour |-> call.hour,
                      is_new_device |-> call.is_new_device,
                      is_unusual_location |-> call.is_unusual_location]
         classifier == [f \in {features} |-> FDiv(call.ml, 1000)]
     IN  call' = [call EXCEPT !.pc = "returned",
                              !.result = Some(evaluate_transaction_risk(
                                            Some(classifier), call.amount, call.hour,
                                            call.is_new_device,
                                            call.is_unusual_location))]
  /\ UNCHANGED <<db, alerts, cache, queue, wk, pr, rd, model, redis_pool, faults>>

NextScore ==
  \/ Return_compute_rule_score
  \/ Return_predict_fraud_probability
  \/ Return_compute_hybrid_score
  \/ Return_determine_risk_decision
  \/ Return_evaluate_transaction_risk

SpecScore == InitScore /\ [][NextScore]_vars

\* ----------------------------------------------------------- specification
Next ==
  \/ \E i \in Created, u \in Owners, p \in Payloads : CreateFlush(i, u, p)
  \/ \E i \in Created : CreateRaise(i)
  \/ \E i \in TxnIds, sent \in BOOLEAN : Enqueue(i, sent)
  \/ \E i \in TxnIds : CreateReturn(i)
  \/ \E i \in TxnIds, ok \in BOOLEAN : CreateCommit(i, ok)
  \/ \E w \in Workers : \E m \in BagToSet(queue) : Deliver(w, m)
  \/ \E w \in Workers : Load(w)
  \/ \E w \in Workers : Commit(w)
  \/ \E w \in Workers : Cache(w)
  \/ \E w \in Workers : Raise(w)
  \/ \E w \in Workers : Ack(w)
  \/ \E w \in Workers : Crash(w)
  \/ \E i \in Created, u \in UserIds : CacheGet(i, u)
  \/ \E i \in Created, u \in UserIds : CacheGetRaise(i, u)
  \/ DbRead
  \/ CacheSet
  \/ CacheSetRaise
  \/ \E i \in TxnIds : CacheExpire(i)

Spec == Init /\ [][Next]_vars

\* The scheduling the job relies on: the queue keeps handing deliverable
\* messages to idle workers, a running task takes its next step (which may
\* be to raise) and an ended task is acknowledged.
Fairness ==
  /\ WF_vars(\E w \in Workers : \E m \in BagToSet(queue) : Deliver(w, m))
  /\ \A w \in Workers : WF_vars(Load(w) \/ Commit(w) \/ Cache(w) \/ Raise(w))
  /\ \A w \in Workers : WF_vars(Ack(w))

\* The write path and the workers alone, without the read path: the life of
\* a job from its dispatch to its last acknowledgment.
NextJobs ==
  \/ \E i \in Created, u \in Owners, p \in Payloads : CreateFlush(i, u, p)
  \/ \E i \in Created : CreateRaise(i)
  \/ \E i \in TxnIds, sent \in BOOLEAN : Enqueue(i, sent)
  \/ \E i \in TxnIds : CreateReturn(i)
  \/ \E i \in TxnIds, ok \in BOOLEAN : CreateCommit(i, ok)
  \/ \E w \in Workers : \E m \in BagToSet(queue) : Deliver(w, m)
  \/ \E w \in Workers : Load(w)
  \/ \E w \in Workers : Commit(w)
  \/ \E w \in Workers : Cache(w)
  \/ \E w \in Workers : Raise(w)
  \/ \E w \in Workers : Ack(w)
  \/ \E w \in Workers : Crash(w)

SpecFair == Init /\ [][NextJobs]_vars /\ Fairness

\* Mutant of InitWorker: the worker process loads the classifier when it
\* starts.
InitWorker_loaded ==
  /\ InitPipeline
  /\ model # None
  /\ call = NoCall

\* The pipeline with the worker process as its entry point leaves it:
\* celery_app includes app.tasks.risk_tasks, which imports the predictor
\* with _model = None, and load_model is called by the lifespan of the
\* FastAPI application only, which the worker never runs.
InitWorker ==
  /\ InitPipeline
  /\ model = None
  /\ call = NoCall

SpecWorker == InitWorker /\ [][Next]_vars

\* Two transactions created and committed by their owner (the larger amount
\* under id A), with their jobs dispatched and not yet delivered: the
\* workers alone from there on.
InitTwoJobs ==
  /\ \E pa \in Payloads, pb \in Payloads :
        LET row == [i \in TxnIds |->
                      NewTransaction(i, "u1", IF i = "A" THEN pa ELSE pb)]
        IN  /\ pa.amount > pb.amount
            /\ db = [i \in TxnIds |-> Some(row[i])]
            /\ pr = [i \in TxnIds |->
                       [pc |-> "committed", txn |-> Some(row[i]), enqueue |-> "sent",
                        response |-> Some(TransactionResponse(row[i]))]]
  /\ alerts = [i \in TxnIds |-> 0]
  /\ cache = [i \in TxnIds |-> None]
  /\ queue = SetToBag({Message(i, 0, 0) : i \in TxnIds})
  /\ wk = [w \in Workers |-> IdleWorker]
  /\ rd = IdleReader
  /\ model \in Models
  /\ redis_pool = TRUE
  /\ faults = 0
  /\ call = NoCall

NextWorkers ==
  \/ \E w \in Workers : \E m \in BagToSet(queue) : Deliver(w, m)
  \/ \E w \in Workers : Load(w)
  \/ \E w \in Workers : Commit(w)
  \/ \E w \in Workers : Cache(w)
  \/ \E w \in Workers : Raise(w)
  \/ \E w \in Workers : Ack(w)
  \/ \E w \in Workers : Crash(w)

SpecTwoJobs == InitTwoJobs /\ [][NextWorkers]_vars

TypeOK ==
  /\ \A i \in TxnIds : alerts[i] \in Nat
  /\ faults \in 0..MaxFaults

\* ================================================================== claims
Terminal == {"APPROVED", "FLAGGED", "BLOCKED"}

\* The step of worker w that is the commit of evaluate_transaction.
CommitStep(w) == wk[w].pc = "commit" /\ wk'[w].pc = "cache"

\* The step of worker w in which an exception reaches the except clause.
RaiseStep(w) ==
  /\ wk[w].pc \in {"load", "commit", "cache"}
  /\ wk'[w].pc = "ack"
  /\ wk'[w].event = "evaluate_transaction_error"

\* C1: in every reachable state there is at most one HIGH_RISK_TRANSACTION
\* alert per transaction, also when the job of a HIGH scoring transaction
\* is delivered and executed twice.
C1_AtMostOneAlert == \A i \in TxnIds : alerts[i] <= 1

\* C2: the row update and the alert insert of one execution are one atomic
\* commit: in every committed state a transaction has risk_level HIGH iff
\* at least one HIGH_RISK_TRANSACTION alert exists for it.
C2_AtomicCommit ==
  \A i \in TxnIds :
    (db[i] # None /\ db[i][1].risk_level = Some("HIGH")) <=> alerts[i] >= 1

\* C2 witness: a HIGH row with its alert is committed and a later step of
\* the same execution has failed (the cache write raised after the commit).
C2_Witness ==
  \E w \in Workers :
    /\ wk[w].event = "evaluate_transaction_error"
    /\ db[wk[w].msg[1].id] # None
    /\ db[wk[w].msg[1].id][1].risk_level = Some("HIGH")
    /\ alerts[wk[w].msg[1].id] >= 1

\* The committed row of transaction i changes in this step only from PENDING
\* to APPROVED, FLAGGED or BLOCKED and only by a worker's commit; a new row
\* is PENDING.
StatusChangesOnce(i) ==
  /\ (db[i] # None /\ db'[i] # db[i]) =>
       /\ db[i][1].status = "PENDING"
       /\ db'[i] # None
       /\ db'[i][1].status \in Terminal
       /\ \E w \in Workers : CommitStep(w) /\ wk[w].msg[1].id = i
  /\ (db[i] = None /\ db'[i] # None) => db'[i][1].status = "PENDING"

\* C3 (as amended): the committed status of a transaction changes at most
\* once, from PENDING to APPROVED, FLAGGED or BLOCKED, and only in a worker's
\* commit; a later execution does run the update and the commit again, but
\* with the same values, so once the status is not PENDING the committed
\* status and scoring columns never change again, whatever is delivered,
\* retried or redelivered.
C3_StatusOnce == [][\A i \in TxnIds : StatusChangesOnce(i)]_vars

\* C3 (as stated): the status changes at most once, only in the worker's
\* commit, and once the status is not PENDING no later execution writes the
\* status or scoring columns again: every commit of the update finds the
\* row PENDING.
C3_NoLaterWrite ==
  [][/\ \A i \in TxnIds : StatusChangesOnce(i)
     /\ \A w \in Workers :
          CommitStep(w) => db[wk[w].msg[1].id][1].status = "PENDING"
    ]_vars

\* C3 witness: a second execution for an already evaluated transaction has
\* gone through its commit.
C3_Witness ==
  \E w \in Workers :
    /\ wk[w].pc \in {"cache", "ack"}
    /\ wk[w].event # "transaction_not_found"
    /\ faults >= 1
    /\ alerts[wk[w].msg[1].id] >= 2

\* C4: in every committed state rule_score, ml_score, final_score and
\* risk_level are all null exactly when status is PENDING and all non-null
\* exactly when status is APPROVED, FLAGGED or BLOCKED.
C4_ScoresIffEvaluated ==
  \A i \in TxnIds :
    db[i] # None =>
      LET t == db[i][1]
      IN  \/ /\ t.status = "PENDING"
             /\ t.rule_score = None /\ t.ml_score = None
             /\ t.final_score = None /\ t.risk_level = None
          \/ /\ t.status \in Terminal
             /\ t.rule_score # None /\ t.ml_score # None
             /\ t.final_score # None /\ t.risk_level # None

\* C4 witness: an evaluated row is committed.
C4_Witness ==
  \E i \in TxnIds : db[i] # None /\ db[i][1].status \in Terminal

\* Every message that exists: deliverable in the queue or held,
\* unacknowledged, by a worker.
AllMessages ==
  BagToSet(queue) \cup {wk[w].msg[1] : w \in {v \in Workers : wk[v].msg # None}}

\* The delay of the k-th retry, k = 1, 2, 3: 2^0, 2^1, 2^2 seconds.
RetryDelay(k) == <<1, 2, 4>>[k]

\* C5: an execution that raises is requeued with delay 2^attempt seconds,
\* attempt being the retries already made; no message carries more than 3
\* retries; the execution that raises with 3 retries made fails the job
\* for good: it publishes nothing, and neither does its acknowledgment.
C5_RetrySchedule ==
  /\ [](\A m \in AllMessages :
          /\ m.retries \in 0..3
          /\ m.countdown = IF m.retries = 0 THEN 0 ELSE RetryDelay(m.retries))
  /\ [][\A w \in Workers :
          /\ RaiseStep(w) =>
               LET m == wk[w].msg[1]
               IN  IF m.retries < 3
                     THEN /\ wk'[w].outcome = "RETRY"
                          /\ queue' = queue (+) SetToBag({[id |-> m.id,
                                                          retries |-> m.retries + 1,
                                                          countdown |-> RetryDelay(m.retries + 1)]})
                     ELSE /\ wk'[w].outcome = "FAILURE"
                          /\ queue' = queue
          /\ (wk[w].outcome = "FAILURE" /\ wk'[w].pc = "idle" /\ faults' = faults)
               => queue' = queue
       ]_vars

\* C5 witness: without any crash or redelivery, a job has raised on every
\* execution and its fourth execution has failed it for good.
C5_Witness ==
  \E w \in Workers :
    /\ wk[w].outcome = "FAILURE"
    /\ wk[w].msg[1].retries = 3
    /\ faults = 0
    /\ queue = EmptyBag

\* C6: when the worker's load finds no row for the job's transaction id,
\* the job ends without a retry being scheduled and without a write to the
\* transactions, the alerts or the Result Cache.
C6_NotFoundNoRetry ==
  [][\A w \in Workers :
       /\ (wk[w].pc = "load" /\ db[wk[w].msg[1].id] = None /\ wk'[w].pc \in {"commit", "ack"}
             /\ ~RaiseStep(w))
            => /\ wk'[w].event = "transaction_not_found"
               /\ wk'[w].outcome = "SUCCESS"
               /\ wk'[w].pc = "ack"
               /\ UNCHANGED <<db, alerts, cache, queue>>
       /\ (wk[w].event = "transaction_not_found" /\ wk'[w] # wk[w])
            => /\ UNCHANGED <<db, alerts, cache>>
               /\ \/ queue' = queue
                  \/ /\ faults' = faults + 1
                     /\ queue' = queue (+) SetToBag({wk[w].msg[1]})
    ]_vars

\* C6 witness: a job has ended in the not-found branch.
C6_Witness ==
  \E w \in Workers :
    /\ wk[w].pc = "ack"
    /\ wk[w].event = "transaction_not_found"
    /\ db[wk[w].msg[1].id] = None

\* C7: when send_task raises or the broker client is absent,
\* create_transaction still holds the inserted PENDING row and returns the
\* PENDING response; the call never ends in an error because of it.
C7_EnqueueFailOpen ==
  \A i \in TxnIds :
    pr[i].enqueue \in {"failed", "skipped"} =>
      /\ pr[i].pc \in {"dispatched", "returned", "committed", "rolledback"}
      /\ pr[i].pc \in {"dispatched", "returned", "committed"} =>
           pr[i].txn # None /\ pr[i].txn[1].status = "PENDING"
      /\ pr[i].pc \in {"returned", "committed", "rolledback"} =>
           pr[i].response # None /\ pr[i].response[1].status = "PENDING"
      /\ pr[i].pc = "committed" => db[i] # None

\* C7 witness: send_task raised, the call returned and the row is committed.
C7_Witness ==
  \E i \in TxnIds :
    /\ pr[i].enqueue = "failed"
    /\ pr[i].pc = "committed"
    /\ pr[i].response # None
    /\ db[i] # None

\* C8: create_transaction inserts a row with status PENDING and null
\* scores, and the response it returns is that PENDING snapshot whatever
\* the worker has done with the job meanwhile.
C8_CreateReturnsPending ==
  \A i \in TxnIds :
    /\ pr[i].txn # None =>
         /\ pr[i].txn[1].status = "PENDING"
         /\ pr[i].txn[1].rule_score = None /\ pr[i].txn[1].ml_score = None
         /\ pr[i].txn[1].final_score = None /\ pr[i].txn[1].risk_level = None
    /\ pr[i].response # None =>
         /\ pr[i].response[1].status = "PENDING"
         /\ pr[i].response[1].rule_score = None /\ pr[i].response[1].ml_score = None
         /\ pr[i].response[1].final_score = None /\ pr[i].response[1].risk_level = None
    /\ pr[i].pc \in {"returned", "committed", "rolledback"} => pr[i].response # None

\* C8 witness: the response has been returned after a worker already ran
\* the job that the same call enqueued.
C8_Witness ==
  \E i \in TxnIds, w \in Workers :
    /\ pr[i].pc = "returned"
    /\ pr[i].response # None
    /\ wk[w].pc = "ack"
    /\ wk[w].msg[1].id = i

\* C9: every Result Cache entry holds a snapshot whose status is not
\* PENDING and whose final_score is not null.
C9_NoPendingCached ==
  \A i \in TxnIds :
    cache[i] # None =>
      /\ cache[i][1].status # "PENDING"
      /\ cache[i][1].final_score # None

\* C9 witness: the read path has populated the cache from the store.
C9_Witness ==
  /\ rd.pc = "done"
  /\ rd.source = "db"
  /\ rd.outcome = "ok"
  /\ cache[rd.id] # None
  /\ cache[rd.id] = rd.response

\* C10: a read by the owner that begins after the evaluation has been
\* committed returns the status, scores and risk_level of the committed
\* row, whether it is served from the cache entry or, the entry being
\* absent, from the store.
C10_CacheAccelerator ==
  (rd.pc = "done" /\ rd.outcome = "ok" /\ rd.evaluated
     /\ rd.user_id = db[rd.id][1].user_id) =>
    LET r == rd.response[1]
        t == db[rd.id][1]
    IN  /\ r.status = t.status
        /\ r.rule_score = t.rule_score
        /\ r.ml_score = t.ml_score
        /\ r.final_score = t.final_score
        /\ r.risk_level = t.risk_level

\* C10 witness: after the evaluation the owner has read the transaction
\* from the store and the cache entry is (again) cleared.
C10_Witness ==
  /\ rd.pc = "done" /\ rd.outcome = "ok" /\ rd.evaluated
  /\ rd.user_id = db[rd.id][1].user_id
  /\ rd.source = "db"
  /\ redis_pool
  /\ cache[rd.id] = None
  /\ \E w \in Workers : wk[w].event = "evaluate_transaction_complete"

\* C11: the read path is fail-open on the Result Cache: with the client
\* absent, or a configured client raising on GET or on SETEX, a finished
\* get_transaction has not failed: it has answered from the Primary Store
\* (the transaction, or its 404 or 403).
C11_ReadFailOpen ==
  rd.pc = "done" => rd.outcome \in {"ok", "404", "403"}

\* C12 (as stated): whenever an execution of the job ends in an error, be
\* the job then retried or failed for good, the transaction is still
\* PENDING in the Primary Store afterwards.
C12_ErrorLeavesPending ==
  [][\A w \in Workers :
       RaiseStep(w) =>
         LET i == wk[w].msg[1].id
         IN  db'[i] # None => db'[i][1].status = "PENDING"
    ]_vars

\* C12 (as amended): an execution that ends in an error writes nothing on
\* its way out, be the job then retried or failed for good: the row, the
\* alerts and the cache entry stay as they were when the exception was
\* raised.  Raised before the commit in the job's first execution, it
\* leaves the transaction PENDING; raised by the cache write, after the
\* commit, it leaves the transaction APPROVED, FLAGGED or BLOCKED.
C12_ErrorWritesNothing ==
  [][\A w \in Workers :
       RaiseStep(w) =>
         LET m == wk[w].msg[1]
         IN  /\ UNCHANGED <<db, alerts, cache>>
             /\ (wk[w].pc \in {"load", "commit"} /\ m.retries = 0 /\ faults = 0
                   /\ db[m.id] # None)
                  => db'[m.id][1].status = "PENDING"
             /\ wk[w].pc = "cache"
                  => db'[m.id] # None /\ db'[m.id][1].status \in Terminal
    ]_vars

\* C12 witness: a job has failed for good and its transaction is still
\* PENDING.
C12_Witness ==
  \E w \in Workers :
    /\ wk[w].pc = "ack"
    /\ wk[w].outcome = "FAILURE"
    /\ db[wk[w].msg[1].id] # None
    /\ db[wk[w].msg[1].id][1].status = "PENDING"

Dispatched(i) == pr[i].enqueue = "sent"
JobEnded(i) == \A m \in AllMessages : m.id # i

\* C14: every dispatched job terminates: with finitely many worker crashes
\* it is, after finitely many executions, either completed and acknowledged
\* or failed for good.  No job is requeued for ever (none carries more than
\* MAX_RETRIES retries), none is cancelled midway (its last message leaves
\* only by the acknowledgment of an execution that has finished: one that
\* returned, failed for good, or raised after its retry was published and
\* is acknowledged after that retry), and an ended job never comes back.
C14_JobTerminates ==
  /\ \A i \in TxnIds : Dispatched(i) ~> JobEnded(i)
  /\ [](\A m \in AllMessages : m.retries <= MAX_RETRIES)
  /\ [][\A i \in TxnIds :
          /\ (~JobEnded(i) /\ JobEnded(i)') =>
               \E w \in Workers :
                 /\ wk[w].pc = "ack" /\ wk'[w].pc = "idle"
                 /\ wk[w].msg[1].id = i
                 /\ wk[w].outcome \in {"SUCCESS", "FAILURE", "RETRY"}
                 /\ faults' = faults
          /\ (Dispatched(i) /\ JobEnded(i)) => JobEnded(i)'
       ]_vars

\* C14 witness: a dispatched job that was redelivered after a crash has
\* ended with the transaction evaluated: nothing of it is left.
C14_Witness ==
  \E i \in TxnIds :
    /\ Dispatched(i)
    /\ JobEnded(i)
    /\ faults = MaxFaults
    /\ db[i] # None
    /\ db[i][1].status \in Terminal

\* C15: once the enqueue of a transaction failed or was skipped, no job for
\* it exists in any later state (no message in the queue or in a worker's
\* hands, nothing else dispatches one) and the transaction is never
\* evaluated: its row, if stored, stays PENDING without scores, no alert is
\* recorded for it and nothing of it is cached (only evaluated rows are).
C15_NoJobStaysPending ==
  \A i \in TxnIds :
    pr[i].enqueue \in {"failed", "skipped"} =>
      /\ JobEnded(i)
      /\ alerts[i] = 0
      /\ db[i] # None =>
           /\ db[i][1].status = "PENDING"
           /\ db[i][1].final_score = None
           /\ db[i][1].risk_level = None
      /\ cache[i] = None

\* C15 witness: the enqueue failed, the transaction was committed and later
\* read from the store by its owner, still PENDING.
C15_Witness ==
  \E i \in TxnIds :
    /\ pr[i].enqueue = "failed"
    /\ pr[i].pc = "committed"
    /\ db[i] # None
    /\ rd.pc = "done" /\ rd.id = i /\ rd.outcome = "ok" /\ rd.source = "db"
    /\ rd.response # None /\ rd.response[1].status = "PENDING"

\* A call of fn on its own has returned.
Returned(fn) == call.fn = fn /\ call.pc = "returned"

\* C16: determine_risk_decision is total on [0, 1] and returns one of three
\* pairs: APPROVED/LOW exactly when the score is below 0.4, FLAGGED/MEDIUM
\* exactly when 0.4 <= score < 0.75, BLOCKED/HIGH exactly when the score is
\* at least 0.75; 0.4 and 0.75 themselves fall in the higher band.  The
\* score is call.score ten-thousandths.
C16_DecisionBands ==
  Returned("determine_risk_decision") =>
    LET k == call.score
        pair == <<call.status, call.risk_level>>
    IN  /\ pair \in {<<"APPROVED", "LOW">>, <<"FLAGGED", "MEDIUM">>, <<"BLOCKED", "HIGH">>}
        /\ pair = <<"APPROVED", "LOW">> <=> k < 4000
        /\ pair = <<"FLAGGED", "MEDIUM">> <=> (4000 <= k /\ k < 7500)
        /\ pair = <<"BLOCKED", "HIGH">> <=> k >= 7500

\* C16 witness: the call with the threshold 0.75 itself returned
\* BLOCKED/HIGH.
C16_Witness ==
  /\ Returned("determine_risk_decision")
  /\ call.score = 7500
  /\ call.status = "BLOCKED"
  /\ call.risk_level = "HIGH"

\* The points the rules give, as the documentation words them.
RulePoints(amount, hour, is_new_device, is_unusual_location) ==
    (IF amount > 50000 THEN 30 ELSE 0)
  + (IF hour \in {22, 23, 0, 1, 2, 3, 4, 5} THEN 10 ELSE 0)
  + (IF is_new_device THEN 20 ELSE 0)
  + (IF is_unusual_location THEN 20 ELSE 0)

\* C17: compute_rule_score returns min(points, 80) / 80, where the points
\* are 30 for an amount above 50000, 10 for an hour >= 22 or < 6, 20 for a
\* new device and 20 for an unusual location.  The result is in [0, 1];
\* hour 22 is night and hour 6 is not; an amount of exactly 50000 adds
\* nothing; switching a flag off never raises the score.  Points are
\* multiples of ten, so the quotient is a number of eighths.
C17_RuleScore ==
  Returned("compute_rule_score") =>
    LET points == RulePoints(call.amount, call.hour, call.is_new_device,
                             call.is_unusual_location)
        eighths == Min(points, 80) \div 10
    IN  /\ call.value = FDiv(eighths, 8)
        /\ ~FLess(call.value, Zero)
        /\ ~FLess(ONE, call.value)
        /\ (call.hour = 22 /\ call.amount <= 50000 /\ ~call.is_new_device
              /\ ~call.is_unusual_location) => call.value = FDiv(1, 8)
        /\ (call.hour = 6 /\ call.amount = 50000 /\ ~call.is_new_device
              /\ ~call.is_unusual_location) => call.value = Zero
        /\ \A d, l \in BOOLEAN :
             ((d => call.is_new_device) /\ (l => call.is_unusual_location)) =>
               ~FLess(call.value, compute_rule_score(call.amount, call.hour, d, l))

\* C17 witness: the call with amount exactly 50000 at hour 22 on a new
\* device returned 30 / 80.
C17_Witness ==
  /\ Returned("compute_rule_score")
  /\ call.amount = 50000
  /\ call.hour = 22
  /\ call.is_new_device
  /\ ~call.is_unusual_location
  /\ call.value = FDiv(3, 8)

\* The larger of two floats, and a <= b on floats.
FMax(a, b) == IF FLess(a, b) THEN b ELSE a
FLeq(a, b) == ~FLess(b, a)

\* The rounding allowance of a hybrid score: 2^-50, four units in the last
\* place of a number just below 1.  Two products and one sum, each rounded
\* once, of weights that are themselves rounded literals, stay within it.
HYBRID_TOLERANCE == Float(BigFromInt(1), 0 - 50)

\* The arguments of a returned call of compute_hybrid_score, as floats.
MlArg == FDiv(call.ml, 1000)
RuleArg == FDiv(call.rule, 1000)

\* C18 as stated: the result lies in [0, 1], is 0 at (0, 0) and 1 at
\* (1, 1), and lies between min(ml, rule) and max(ml, rule).
C18_HybridBetweenExactly ==
  Returned("compute_hybrid_score") =>
    /\ FLeq(Zero, call.value) /\ FLeq(call.value, ONE)
    /\ (call.ml = 0 /\ call.rule = 0) => call.value = Zero
    /\ (call.ml = 1000 /\ call.rule = 1000) => call.value = ONE
    /\ FLeq(FMin(MlArg, RuleArg), call.value)
    /\ FLeq(call.value, FMax(MlArg, RuleArg))

\* C18, amended: compute_hybrid_score(ml, rule) is 0.7*ml + 0.3*rule up to
\* floating-point rounding (within HYBRID_TOLERANCE of the exact value,
\* which for ml = m/1000 and rule = r/1000 is (7m + 3r)/10000); the result
\* lies in [0, 1], is exactly 0 at (0, 0) and exactly 1 at (1, 1), and lies
\* between min(ml, rule) and max(ml, rule) up to the same allowance.
C18_HybridWithinRounding ==
  Returned("compute_hybrid_score") =>
    LET exact == FDiv(7 * call.ml + 3 * call.rule, 10000)
    IN  /\ FLeq(call.value, FAdd(exact, HYBRID_TOLERANCE))
        /\ FLeq(exact, FAdd(call.value, HYBRID_TOLERANCE))
        /\ FLeq(Zero, call.value) /\ FLeq(call.value, ONE)
        /\ (call.ml = 0 /\ call.rule = 0) => call.value = Zero
        /\ (call.ml = 1000 /\ call.rule = 1000) => call.value = ONE
        /\ FLeq(FMin(MlArg, RuleArg), FAdd(call.value, HYBRID_TOLERANCE))
        /\ FLeq(call.value, FAdd(FMax(MlArg, RuleArg), HYBRID_TOLERANCE))

\* C18 witness: compute_hybrid_score(0.75, 0.75) returned a value below
\* 0.75, and within the allowance of it.
C18_Witness ==
  /\ Returned("compute_hybrid_score")
  /\ call.ml = 750 /\ call.rule = 750
  /\ FLess(call.value, FDiv(75, 100))
  /\ FLeq(FDiv(75, 100), FAdd(call.value, HYBRID_TOLERANCE))

\* Without a loaded artifact every feature vector gets exactly 0.5.
NeutralWithoutModel ==
  \A f \in FeatureVectors : predict_fraud_probability(None, f) = FDiv(1, 2)

\* C19: when the classifier artifact is not loaded, predict_fraud_probability
\* returns exactly 0.5 for every feature vector, and the evaluation goes on
\* as usual: the execution that loaded the row holds a result with
\* ml_score 0.5 and final_score 0.35 + 0.3 * rule_score (in ten-thousandths),
\* and the execution that completed returned normally (state SUCCESS, no
\* retry asked) with the row stored as evaluated from that result.
C19_ModelMissingNeutral ==
  model = None =>
    /\ NeutralWithoutModel
    /\ \A w \in Workers :
         /\ wk[w].result # None =>
              LET result == wk[w].result[1]
              IN  /\ wk[w].pc \in {"commit", "cache", "ack"}
                  /\ result.ml_score = 5000
                  /\ result.final_score = 3500 + (3 * result.rule_score) \div 10
                  /\ result.status \in {"APPROVED", "FLAGGED"}
         /\ (wk[w].pc = "ack" /\ wk[w].event = "evaluate_transaction_complete") =>
              LET i == wk[w].msg[1].id
              IN  /\ wk[w].outcome = "SUCCESS"
                  /\ wk[w].result # None
                  /\ db[i] # None
                  /\ db[i][1].ml_score = Some(5000)
                  /\ db[i][1].final_score = Some(wk[w].result[1].final_score)
                  /\ db[i][1].status = wk[w].result[1].status

\* C19 witness: without a model, the first execution of the job for the
\* high-amount night transaction completed; the row is FLAGGED with
\* ml_score 0.5 and final_score 0.65 and the cache holds the same.
C19_Witness ==
  \E w \in Workers :
    LET i == wk[w].msg[1].id
    IN  /\ model = None
        /\ wk[w].pc = "ack"
        /\ wk[w].event = "evaluate_transaction_complete"
        /\ wk[w].msg[1].retries = 0
        /\ faults = 0
        /\ db[i][1].amount = 100000
        /\ db[i][1].ml_score = Some(5000)
        /\ db[i][1].final_score = Some(6500)
        /\ db[i][1].status = "FLAGGED"
        /\ cache[i] # None
        /\ cache[i][1].ml_score = Some(5000)
        /\ cache[i][1].status = "FLAGGED"

\* Worker w has completed the first execution of its job, the only delivery
\* so far: no retry was asked and no worker was lost.
SingleDeliveryDone(w) ==
  /\ wk[w].pc = "ack"
  /\ wk[w].event = "evaluate_transaction_complete"
  /\ wk[w].msg[1].retries = 0
  /\ faults = 0

\* C20: after a single delivery of the job that executes successfully on a
\* PENDING transaction, the transaction has one HIGH_RISK_TRANSACTION alert
\* if the computed risk_level is HIGH and none otherwise.  Amount 100000 at
\* hour 2 with device_id and location set and a model score of 0.9 gives
\* rule_score 1.0, final_score 0.93, BLOCKED, HIGH and exactly one alert.
C20_AlertIffHigh ==
  \A w \in Workers :
    SingleDeliveryDone(w) =>
      LET i == wk[w].msg[1].id
          result == wk[w].result[1]
      IN  /\ alerts[i] = (IF result.risk_level = "HIGH" THEN 1 ELSE 0)
          /\ db[i][1].risk_level = Some(result.risk_level)
          /\ (/\ db[i][1].amount = 100000 /\ db[i][1].hour = 2
              /\ db[i][1].device_id # None /\ db[i][1].location # None
              /\ result.ml_score = 9000) =>
               /\ result.rule_score = 10000
               /\ result.final_score = 9300
               /\ result.status = "BLOCKED"
               /\ result.risk_level = "HIGH"
               /\ db[i][1].status = "BLOCKED"
               /\ alerts[i] = 1

\* C20 witness: the single delivery for the high-amount night transaction,
\* scored 0.9 by the model, is done and one alert is recorded.
C20_Witness ==
  \E w \in Workers :
    /\ SingleDeliveryDone(w)
    /\ db[wk[w].msg[1].id][1].amount = 100000
    /\ wk[w].result[1].ml_score = 9000
    /\ wk[w].result[1].final_score = 9300
    /\ alerts[wk[w].msg[1].id] = 1

\* The moves of a worker's position: received, loaded and scored, committed,
\* cached, acknowledged; an exception takes any step to the acknowledgment
\* of a retry or failure, a row not found takes the load there, a lost
\* worker is idle again.
StepOrder ==
  { <<"idle", "load">>, <<"load", "commit">>, <<"commit", "cache">>,
    <<"cache", "ack">>, <<"ack", "idle">>,
    <<"load", "ack">>, <<"commit", "ack">>,
    <<"load", "idle">>, <<"commit", "idle">>, <<"cache", "idle">> }

\* C21: in every execution the steps happen in the order load, score,
\* commit, cache write, acknowledge.  The Result Cache is never written for
\* a transaction before its scores are committed to the Primary Store, and
\* an execution is never acknowledged as complete before its cache write
\* succeeded.
C21_StepsInOrder ==
  [][/\ \A w \in Workers :
          /\ wk'[w].pc # wk[w].pc => <<wk[w].pc, wk'[w].pc>> \in StepOrder
          /\ (wk[w].pc = "load" /\ wk'[w].pc = "commit") =>
               /\ wk'[w].result # None
               /\ UNCHANGED <<db, alerts, cache>>
          /\ (wk[w].pc = "commit" /\ wk'[w].pc = "cache") =>
               LET i == wk[w].msg[1].id
               IN  /\ db'[i][1].final_score = Some(wk[w].result[1].final_score)
                   /\ cache' = cache
          /\ (wk'[w].event = "evaluate_transaction_complete"
                /\ wk[w].event # "evaluate_transaction_complete") =>
               LET i == wk[w].msg[1].id
               IN  /\ wk[w].pc = "cache" /\ wk'[w].pc = "ack"
                   /\ cache'[i] = Some(cache_data(db[i][1], wk[w].result[1]))
          /\ (wk[w].pc = "ack" /\ wk'[w].pc = "idle" /\ faults' = faults
                /\ wk[w].event = "evaluate_transaction_complete") =>
               wk[w].outcome = "SUCCESS"
     /\ \A i \in TxnIds :
          (cache'[i] # cache[i] /\ cache'[i] # None) =>
            /\ db[i] # None
            /\ db[i][1].final_score = cache'[i][1].final_score
            /\ db[i][1].final_score # None
            /\ db[i][1].status \in Terminal
    ]_vars

\* C21 witness: an execution went through all its steps; it is about to be
\* acknowledged, the row is evaluated and the cache holds its snapshot.
C21_Witness ==
  \E w \in Workers :
    /\ wk[w].pc = "ack"
    /\ wk[w].event = "evaluate_transaction_complete"
    /\ wk[w].outcome = "SUCCESS"
    /\ db[wk[w].msg[1].id][1].status = "APPROVED"
    /\ cache[wk[w].msg[1].id] # None
    /\ cache[wk[w].msg[1].id][1].status = "APPROVED"

\* The step is one of worker w alone, executing the job of transaction i.
ExecutionStep(w, i) ==
  /\ wk[w].msg # None
  /\ wk[w].msg[1].id = i
  /\ wk'[w] # wk[w]
  /\ \A v \in Workers \ {w} : wk'[v] = wk[v]

\* C22: under any interleaving of concurrent workers, an execution of the
\* job for one transaction id changes only that transaction's row, alerts
\* and cache entry; those of every other id are left unchanged.
C22_OtherIdsUntouched ==
  [][\A w \in Workers : \A i \in TxnIds :
       ExecutionStep(w, i) =>
         \A j \in TxnIds \ {i} :
           /\ db'[j] = db[j]
           /\ alerts'[j] = alerts[j]
           /\ cache'[j] = cache[j]
    ]_vars

\* C22 witness: the two workers are inside the executions of two different
\* transactions, one of them committed and the other's row still PENDING.
C22_Witness ==
  \E w, v \in Workers :
    /\ wk[w].pc = "cache"
    /\ wk[v].pc = "commit"
    /\ wk[w].msg[1].id # wk[v].msg[1].id
    /\ db[wk[w].msg[1].id][1].status \in Terminal
    /\ db[wk[v].msg[1].id][1].status = "PENDING"

\* What one execution leaves of transaction i: its row with the scores of
\* its immutable columns, and the snapshot of that row.
RowAfterOneExecution(i) ==
  ApplyResult(db[i][1], ScoreLoaded(model, [db[i][1] EXCEPT !.status = "PENDING"]))

\* C23: re-execution is idempotent on the transaction row and the cache:
\* executing the job for the same transaction again, after or interleaved
\* with another execution, leaves status, rule_score, ml_score, final_score,
\* risk_level and the content of the cache key as one execution leaves
\* them.  An evaluated row and a cache entry are always those of one
\* execution, and a commit or cache write that is not the first changes
\* nothing.
C23_ReexecutionIdempotent ==
  /\ [](\A i \in TxnIds :
          /\ Evaluated(i) => db[i][1] = RowAfterOneExecution(i)
          /\ cache[i] # None =>
               /\ Evaluated(i)
               /\ cache[i][1] = TransactionResponse(RowAfterOneExecution(i)))
  /\ [][\A w \in Workers :
          /\ (CommitStep(w) /\ Evaluated(wk[w].msg[1].id)) =>
               db'[wk[w].msg[1].id] = db[wk[w].msg[1].id]
          /\ (wk[w].pc = "cache" /\ wk'[w].pc = "ack"
                /\ wk'[w].event = "evaluate_transaction_complete"
                /\ cache[wk[w].msg[1].id] # None) =>
               cache'[wk[w].msg[1].id] = cache[wk[w].msg[1].id]
       ]_vars

\* C23 witness: a second execution (the retry after a failed cache write)
\* committed and wrote the cache over an evaluated row.
C23_Witness ==
  \E w \in Workers :
    /\ wk[w].pc = "ack"
    /\ wk[w].event = "evaluate_transaction_complete"
    /\ wk[w].msg[1].retries = 1
    /\ faults = 0
    /\ cache[wk[w].msg[1].id] # None
    /\ db[wk[w].msg[1].id][1].status = "FLAGGED"

\* C24: get_transaction never returns a snapshot to a requesting user who
\* is not the transaction's owner: for a stored transaction and a user_id
\* different from its owner's the call ends in the not-authorised error
\* (in not-found if the row was not stored yet when it was looked up, or
\* in the error of a failing cache client), with or without a cache entry,
\* and hands out no snapshot.
C24_OwnerOnly ==
  (/\ rd.pc = "done"
   /\ db[rd.id] # None
   /\ db[rd.id][1].user_id # rd.user_id) =>
     /\ rd.outcome \in {"403", "404", "error"}
     /\ rd.response = None

\* C25: whenever a worker executes a job the producer enqueued, the
\* transaction row is already committed: no job is in the queue or in a
\* worker's hands before its transaction's insert is committed, none exists
\* for an insert that was rolled back, and the not-found branch is never
\* taken for a transaction the producer created.
C25_CommittedBeforeJob ==
  /\ \A m \in AllMessages : db[m.id] # None
  /\ \A i \in TxnIds : pr[i].pc = "rolledback" => JobEnded(i)
  /\ \A w \in Workers : wk[w].event # "transaction_not_found"

\* C26: with exactly-once delivery and no worker crash, a transient failure
\* of the cache write after the commit, followed by the scheduled retry,
\* still leaves at most one HIGH_RISK_TRANSACTION alert: the retry does not
\* insert a second alert for scores the failed attempt already committed.
C26_RetryKeepsOneAlert ==
  faults = 0 =>
    \A w \in Workers :
      (wk[w].msg # None /\ wk[w].msg[1].retries >= 1 /\ wk[w].pc \in {"cache", "ack"}) =>
        alerts[wk[w].msg[1].id] <= 1

\* C27: for every evaluated transaction the persisted status and risk_level
\* equal determine_risk_decision applied to the persisted final_score: the
\* stored final_score (rounded to 4 decimals) is never on the other side of
\* the 0.4 or 0.75 threshold from the stored status.
C27_StoredScoreMatchesStatus ==
  Returned("evaluate_transaction_risk") =>
    LET result == call.result[1]
    IN  /\ <<result.status, result.risk_level>> =
             determine_risk_decision(FDiv(result.final_score, 10000))
        /\ result.status = "APPROVED" <=> result.final_score < 4000
        /\ result.status = "BLOCKED" <=> result.final_score >= 7500

\* Without a classifier the decision over every amount, hour and flags is
\* APPROVED/LOW when the rule points are at most 10 and FLAGGED/MEDIUM
\* otherwise, on a final score of 0.35 + 0.3 * rule_score.
NeutralDecisions ==
  \A a \in Amounts, h \in Hours, d \in BOOLEAN, l \in BOOLEAN :
    LET result == evaluate_transaction_risk(None, a, h, d, l)
        points == RulePoints(a, h, d, l)
    IN  /\ result.ml_score = 5000
        /\ result.rule_score = 125 * points
        /\ result.final_score = 3500 + (375 * points) \div 10
        /\ result.final_score >= 3500 /\ result.final_score <= 6500
        /\ <<result.status, result.risk_level>> =
             IF points <= 10 THEN <<"APPROVED", "LOW">> ELSE <<"FLAGGED", "MEDIUM">>

C29_CacheNeverStale ==
  \A i \in TxnIds :
    cache[i] # None =>
      /\ db[i] # None
      /\ cache[i][1].status = db[i][1].status
      /\ cache[i][1].rule_score = db[i][1].rule_score
      /\ cache[i][1].ml_score = db[i][1].ml_score
      /\ cache[i][1].final_score = db[i][1].final_score
      /\ cache[i][1].risk_level = db[i][1].risk_level

\* C29 witness: the entry was populated by the read path from the store
\* while, after a crash, a redelivered execution of the same job is about
\* to commit again.
C29_Witness ==
  \E w \in Workers :
    /\ faults = 1
    /\ wk[w].pc = "commit"
    /\ rd.pc = "done" /\ rd.source = "db" /\ rd.outcome = "ok"
    /\ rd.id = wk[w].msg[1].id
    /\ cache[rd.id] # None
    /\ cache[rd.id] = rd.response

\* No execution exhausts the retry budget: the store and the cache fail on
\* fewer consecutive executions than max_retries allows.
WithinRetryBudget == \A w \in Workers : wk[w].outcome # "FAILURE"

\* C30: if the enqueue for a created (committed) transaction succeeded, the
\* queue delivers fairly and no execution exhausts the retry budget, then
\* the transaction eventually leaves PENDING, its job is eventually
\* acknowledged for good and the cache eventually holds its snapshot.
C30_EventuallyEvaluated ==
  []WithinRetryBudget =>
    \A i \in TxnIds :
      (Dispatched(i) /\ pr[i].pc = "committed") ~>
        (Evaluated(i) /\ JobEnded(i) /\ cache[i] # None)

====
